---- MODULE Spec2Model ----
(***************************************************************************)
(* A model of the commander package (commander.go, lines 1-349): the       *)
(* registry of categories and commands, and one Run call as one step:      *)
(* lookup, handler validation, flag-schema synthesis from the handler's    *)
(* second parameter, flag parsing, and the reflective call.                *)
(*                                                                         *)
(* Strings that the code inspects character by character (command-line     *)
(* tokens, flag names, default tags) are sequences of one-character        *)
(* strings.  Strings the code only prints (descriptions, usage texts,      *)
(* category names) are TLA+ strings.                                       *)
(***************************************************************************)
EXTENDS Integers, Sequences, FiniteSets, TLC

VARIABLES
    categories,  \* Commander.categories: category name -> Category object (index in catHeap)
    catHeap,     \* every Category object AddCategory has created: [Name, commands]
    cmdFlags,    \* Command.flags of every Command object
    args,        \* Commander.args
    output,      \* what has been written to Commander.output
    written,     \* what the latest Run call wrote to it
    result,      \* how the latest Run call ended
    calls,       \* the handler invocations of the latest Run call
    picked,      \* the Command object the latest Run call resolved (0: none)
    runs         \* the number of Run calls so far

vars == <<categories, catHeap, cmdFlags, args, output, written, result, calls, picked, runs>>

----------------------------------------------------------------------------
(* Bounds of the model.                                                    *)

\* AddCategory calls made by the program after construction.
MaxCats == 1
\* Entries (category, command name) in all command maps together.
MaxRegistered == 2
\* Tokens after the command name in the enumerated argument vectors.
MaxTail == 2
\* Run calls on one Commander.
MaxRuns == 2

----------------------------------------------------------------------------
(* Tokens.                                                                 *)

prog == <<"p">>
help == <<"h", "e", "l", "p">>
test == <<"t", "e", "s", "t">>
loose == <<"l", "o", "o", "s", "e">>
unknown == <<"u", "n", "k", "n", "o", "w", "n">>
flag1 == <<"f", "l", "a", "g", "1">>
flag2 == <<"f", "l", "a", "g", "2">>
port == <<"p", "o", "r", "t">>
true == <<"t", "r", "u", "e">>
false == <<"f", "a", "l", "s", "e">>
value == <<"v", "a", "l", "u", "e">>

Dash(name) == <<"-", "-">> \o name

----------------------------------------------------------------------------
(* Types seen through reflect: a parameter type is [kind, ctx, fields],    *)
(* ctx telling whether it implements context.Context; a struct field is    *)
(* [Name, Kind, flag, default, usage], the last three being its tags.      *)

CtxT == [kind |-> "interface", ctx |-> TRUE, fields |-> <<>>]
StringT == [kind |-> "string", ctx |-> FALSE, fields |-> <<>>]
IntT == [kind |-> "int", ctx |-> FALSE, fields |-> <<>>]
StructT(fields) == [kind |-> "struct", ctx |-> FALSE, fields |-> fields]

Field(name, kind, flagName, default, usage) ==
    [Name |-> name, Kind |-> kind, flag |-> flagName, default |-> default,
     usage |-> usage]

\* TestArgs of commander_test.go.
TestArgs ==
    StructT(<<Field(<<"F", "l", "a", "g", "1">>, "bool", flag1, false, "Test flag 1"),
              Field(<<"F", "l", "a", "g", "2">>, "string", flag2, test, "Test flag 2")>>)

\* A registrant's structure using the tag forms handleStructArgs accepts:
\* absent tags, integer defaults of several shapes, boolean defaults other than
\* "false", and a field of a kind the switch has no case for.
LooseArgs ==
    StructT(<<Field(<<"P", "o", "r", "t">>, "int", port, <<"2", "2">>, "Server port"),
              Field(<<"L", "v">>, "int", <<>>, <<>>, ""),
              Field(<<"B", "a", "d">>, "int", <<"b", "a", "d">>, <<"1", "2", "a", "b", "c">>, ""),
              Field(<<"J", "u", "n", "k">>, "int", <<"j", "u", "n", "k">>, <<"a", "b", "c">>, ""),
              Field(<<"N", "e", "g">>, "int", <<"n", "e", "g">>, <<"-", "5">>, ""),
              Field(<<"O", "n">>, "bool", <<"o", "n">>, true, ""),
              Field(<<"Y", "e", "s">>, "bool", <<"y", "e", "s">>, <<"y", "e", "s">>, ""),
              Field(<<"R", "a", "t", "i", "o">>, "float64", <<"r", "a", "t", "i", "o">>, <<"1">>, "Ratio"),
              Field(<<"H", "o", "s", "t">>, "string", <<>>, <<>>, "Server host")>>)

(* Handlers: [fn, kind, in].  kind is the reflect kind of the Handler value *)
(* ("nil" for a nil interface), in the parameter types of a function.      *)
Func(fn, in) == [fn |-> fn, kind |-> "func", in |-> in]

helpHandlerT == Func("helpHandler", <<CtxT, StringT>>)

\* Command literals a program may pass to Register; a Command object is its
\* index here.  Object 1 is the one NewWithArgs registers.
Commands ==
    <<[Name |-> help, Description |-> "Show help information for commands",
       Handler |-> helpHandlerT],
      [Name |-> test, Description |-> "Test command",
       Handler |-> Func("testHandler", <<CtxT, TestArgs>>)],
      [Name |-> help, Description |-> "Displays the car's current status",
       Handler |-> Func("statusHandler", <<CtxT>>)],
      [Name |-> loose, Description |-> "Loose command",
       Handler |-> Func("looseHandler", <<CtxT, LooseArgs>>)],
      [Name |-> <<"n", "i", "l">>, Description |-> "No handler",
       Handler |-> [fn |-> "nil", kind |-> "nil", in |-> <<>>]],
      [Name |-> <<"b", "a", "d">>, Description |-> "Handler is the int 42",
       Handler |-> [fn |-> "42", kind |-> "int", in |-> <<>>]],
      [Name |-> <<"n", "o", "p">>, Description |-> "func()",
       Handler |-> Func("noParams", <<>>)],
      [Name |-> <<"n", "o", "c">>, Description |-> "func(string)",
       Handler |-> Func("noContext", <<StringT>>)],
      [Name |-> <<"t", "h", "r", "e", "e">>, Description |-> "func(context.Context, string, int)",
       Handler |-> Func("threeParams", <<CtxT, StringT, IntT>>)],
      [Name |-> <<"i", "n", "t">>, Description |-> "func(context.Context, int)",
       Handler |-> Func("intParam", <<CtxT, IntT>>)]>>

CmdIds == 1 .. Len(Commands)
HelpCmd == 1

----------------------------------------------------------------------------
(* Conversions of the Go library the code calls, over the characters the   *)
(* model's tokens are made of (no "_", and numbers far from 64 bits).      *)

UpperLetters ==
    <<"A", "B", "C", "D", "E", "F", "G", "H", "I", "J", "K", "L", "M",
      "N", "O", "P", "Q", "R", "S", "T", "U", "V", "W", "X", "Y", "Z">>
LowerLetters ==
    <<"a", "b", "c", "d", "e", "f", "g", "h", "i", "j", "k", "l", "m",
      "n", "o", "p", "q", "r", "s", "t", "u", "v", "w", "x", "y", "z">>

ToLowerChar(c) ==
    IF \E i \in 1 .. Len(UpperLetters) : UpperLetters[i] = c
    THEN LowerLetters[CHOOSE i \in 1 .. Len(UpperLetters) : UpperLetters[i] = c]
    ELSE c

\* strings.ToLower
ToLower(s) == [i \in 1 .. Len(s) |-> ToLowerChar(s[i])]

DigitChars ==
    <<"0", "1", "2", "3", "4", "5", "6", "7", "8", "9", "a", "b", "c", "d", "e", "f">>
DecimalDigits == {DigitChars[i] : i \in 1 .. 10}

\* The value of the digit c, -1 when c is no digit.
DigitVal(c) ==
    IF \E i \in 1 .. Len(DigitChars) : DigitChars[i] = c
    THEN (CHOOSE i \in 1 .. Len(DigitChars) : DigitChars[i] = c) - 1
    ELSE 0 - 1

NoInt == [ok |-> FALSE, v |-> 0]

RECURSIVE DigitsValue(_, _, _)
RECURSIVE DigitsStep(_, _, _, _)
\* The digit loop of strconv.ParseUint: s in the given base, acc so far.
DigitsValue(s, base, acc) ==
    IF Len(s) = 0 THEN [ok |-> TRUE, v |-> acc]
    ELSE DigitsStep(s, base, acc, DigitVal(ToLowerChar(s[1])))

\* One round of the loop, d being the value of the first character of s.
DigitsStep(s, base, acc, d) ==
    IF d < 0 \/ d >= base THEN NoInt ELSE DigitsValue(Tail(s), base, acc * base + d)

\* The prefix of s that sets the base when the base is 0: "b", "o", "x", "0"
\* (a leading zero alone) or "" (none).
BasePrefix(s) ==
    IF s[1] # "0" THEN ""
    ELSE IF Len(s) >= 3 /\ ToLowerChar(s[2]) \in {"b", "o", "x"} THEN ToLowerChar(s[2])
    ELSE "0"

UintDigits(s, base, pre) ==
    IF base # 0 \/ pre = "" THEN s
    ELSE IF pre = "0" THEN Tail(s)
    ELSE SubSeq(s, 3, Len(s))

UintBase(base, pre) ==
    IF base # 0 THEN base
    ELSE CASE pre = "" -> 10 [] pre = "b" -> 2 [] pre = "x" -> 16 [] OTHER -> 8

\* strconv.ParseUint(s, base, 64); base 0 takes the base from the prefix.
ParseUint(s, base) ==
    IF Len(s) = 0 THEN NoInt
    ELSE DigitsValue(UintDigits(s, base, BasePrefix(s)), UintBase(base, BasePrefix(s)), 0)

Signed(neg, r) == IF r.ok /\ neg THEN [ok |-> TRUE, v |-> 0 - r.v] ELSE r

\* strconv.ParseInt(s, base, 64): an optional sign, then ParseUint.
ParseInt(s, base) ==
    IF Len(s) = 0 THEN NoInt
    ELSE Signed(s[1] = "-", ParseUint(IF s[1] \in {"+", "-"} THEN Tail(s) ELSE s, base))

RECURSIVE SkipSpace(_)
SkipSpace(s) == IF Len(s) > 0 /\ s[1] = " " THEN SkipSpace(Tail(s)) ELSE s

RECURSIVE PrefixLen(_, _)
\* The number of leading characters of s that are in set.
PrefixLen(s, set) ==
    IF Len(s) > 0 /\ s[1] \in set THEN 1 + PrefixLen(Tail(s), set) ELSE 0

\* The number token of scanInt: the sign and the n digits after it.
ScanToken(t, sign, n) ==
    IF n = 0 THEN NoInt ELSE ParseInt(SubSeq(t, 1, sign + n), 10)

ScanInt(t, sign) ==
    ScanToken(t, sign, PrefixLen(SubSeq(t, sign + 1, Len(t)), DecimalDigits \cup {"_"}))

ScanSigned(t) == ScanInt(t, IF Len(t) > 0 /\ t[1] \in {"+", "-"} THEN 1 ELSE 0)

\* fmt.Sscanf(s, "%d", &n): leading spaces are skipped, a sign is accepted, the
\* longest run of decimal digits is converted, and what follows is not read.
SscanfD(s) == ScanSigned(SkipSpace(s))

\* strconv.ParseBool
ParseBool(s) ==
    IF s \in {<<"1">>, <<"t">>, <<"T">>, <<"T", "R", "U", "E">>, true, <<"T", "r", "u", "e">>}
    THEN [ok |-> TRUE, v |-> TRUE]
    ELSE IF s \in {<<"0">>, <<"f">>, <<"F">>, <<"F", "A", "L", "S", "E">>, false,
                   <<"F", "a", "l", "s", "e">>}
    THEN [ok |-> TRUE, v |-> FALSE]
    ELSE [ok |-> FALSE, v |-> FALSE]

----------------------------------------------------------------------------
(* The argument structure and its flags (handleStructArgs).  The value of  *)
(* a field is [k, b, i, s]: its kind and the component that kind uses.     *)

BoolV(b) == [k |-> "bool", b |-> b, i |-> 0, s |-> <<>>]
IntV(i) == [k |-> "int", b |-> FALSE, i |-> i, s |-> <<>>]
StringV(s) == [k |-> "string", b |-> FALSE, i |-> 0, s |-> s]
\* The zero value of a field of any other kind: no flag is bound to it.
ZeroV == [k |-> "zero", b |-> FALSE, i |-> 0, s |-> <<>>]

SupportedKinds == {"bool", "int", "string"}

\* The flag name of a field: the flag tag, else the lower-cased field name.
FlagName(field) == IF field.flag # <<>> THEN field.flag ELSE ToLower(field.Name)

\* A default that is true for every text but "" and "false".
DefaultBoolLenient(d) == d # <<>> /\ d # false

\* defaultBool := defaultValue == "true"
DefaultBool(d) == d = true

IntOrZero(r) == IF r.ok THEN r.v ELSE 0

\* var defaultInt int; if defaultValue != "" { fmt.Sscanf(defaultValue, "%d", &defaultInt) }
DefaultInt(d) == IF d = <<>> THEN 0 ELSE IntOrZero(SscanfD(d))

\* The value a field has once its flag is registered (reflect.New leaves the
\* zero value where the switch has no case).
DefaultOf(field) ==
    CASE field.Kind = "bool" -> BoolV(DefaultBool(field.default))
      [] field.Kind = "int" -> IntV(DefaultInt(field.default))
      [] field.Kind = "string" -> StringV(field.default)
      [] OTHER -> ZeroV

\* argValue after the registration loop.
DefaultStruct(fields) == [i \in 1 .. Len(fields) |-> DefaultOf(fields[i])]

\* The formal flags of the FlagSet, as the indexes of the fields bound to them.
FlagIndex(fields, name) ==
    IF \E i \in 1 .. Len(fields) :
           fields[i].Kind \in SupportedKinds /\ FlagName(fields[i]) = name
    THEN CHOOSE i \in 1 .. Len(fields) :
           fields[i].Kind \in SupportedKinds /\ FlagName(fields[i]) = name
    ELSE 0

\* The position of the first "=" after the first character of name, else 0.
EqualsAt(name) ==
    IF \E i \in 2 .. Len(name) : name[i] = "="
    THEN CHOOSE i \in 2 .. Len(name) :
           name[i] = "=" /\ \A j \in 2 .. i - 1 : name[j] # "="
    ELSE 0

ParseEnd(err, vals, actual, rest, bad) ==
    [err |-> err, vals |-> vals, actual |-> actual, rest |-> rest, bad |-> bad]

RECURSIVE ParseArgs(_, _, _, _)
RECURSIVE ParseName(_, _, _, _, _)
RECURSIVE ParseSplit(_, _, _, _, _, _)
RECURSIVE ParseFlag(_, _, _, _, _, _, _, _)
RECURSIVE SetBool(_, _, _, _, _, _, _)
RECURSIVE SetInt(_, _, _, _, _, _, _)

\* parseOne giving a boolean flag the next token as its value, as it does for
\* the flags of the other kinds.
ParseFlagBoolTakesValue(fields, vals, actual, a, name, hasValue, val, i) ==
    IF i = 0
    THEN IF name = help \/ name = <<"h">>
         THEN ParseEnd("ErrHelp", vals, actual, a, name)
         ELSE ParseEnd("ParseError", vals, actual, a, name)
    ELSE IF ~hasValue /\ Len(a) = 0
    THEN ParseEnd("ParseError", vals, actual, a, name)
    ELSE IF fields[i].Kind = "bool"
    THEN IF hasValue
         THEN SetBool(fields, vals, actual, a, name, i, ParseBool(val))
         ELSE SetBool(fields, vals, actual, Tail(a), name, i, ParseBool(a[1]))
    ELSE IF fields[i].Kind = "int"
    THEN IF hasValue
         THEN SetInt(fields, vals, actual, a, name, i, ParseInt(val, 0))
         ELSE SetInt(fields, vals, actual, Tail(a), name, i, ParseInt(a[1], 0))
    ELSE IF hasValue
         THEN ParseArgs(fields, [vals EXCEPT ![i] = StringV(val)], actual \cup {name}, a)
         ELSE ParseArgs(fields, [vals EXCEPT ![i] = StringV(a[1])], actual \cup {name}, Tail(a))

(* flag.FlagSet.Parse without its error handling: parseOne repeated until   *)
(* the arguments end, a non-flag token or "--" is met, or a flag fails.    *)
(* vals is the structure the flags write to, actual the names of the flags *)
(* set so far, a the arguments left.                                       *)
ParseArgs(fields, vals, actual, a) ==
    IF Len(a) = 0 THEN ParseEnd("nil", vals, actual, a, <<>>)
    ELSE IF Len(a[1]) < 2 \/ a[1][1] # "-" THEN ParseEnd("nil", vals, actual, a, <<>>)
    ELSE IF a[1] = <<"-", "-">> THEN ParseEnd("nil", vals, actual, Tail(a), <<>>)
    ELSE ParseName(fields, vals, actual, a,
                   SubSeq(a[1], IF a[1][2] = "-" THEN 3 ELSE 2, Len(a[1])))

\* name: the token a[1] without its one or two minus signs.
ParseName(fields, vals, actual, a, name) ==
    IF name[1] = "-" \/ name[1] = "="
    THEN ParseEnd("ParseError", vals, actual, Tail(a), a[1])  \* bad flag syntax
    ELSE ParseSplit(fields, vals, actual, a, name, EqualsAt(name))

\* eq: where name holds "=", the flag's value following it.
ParseSplit(fields, vals, actual, a, name, eq) ==
    IF eq # 0
    THEN ParseFlag(fields, vals, actual, Tail(a), SubSeq(name, 1, eq - 1), TRUE,
                   SubSeq(name, eq + 1, Len(name)), FlagIndex(fields, SubSeq(name, 1, eq - 1)))
    ELSE ParseFlag(fields, vals, actual, Tail(a), name, FALSE, <<>>, FlagIndex(fields, name))

\* i: the field of the flag called name, 0 when no flag is.  a: what follows
\* the flag's token.
ParseFlag(fields, vals, actual, a, name, hasValue, val, i) ==
    IF i = 0
    THEN IF name = help \/ name = <<"h">>
         THEN ParseEnd("ErrHelp", vals, actual, a, name)
         ELSE ParseEnd("ParseError", vals, actual, a, name)  \* flag provided but not defined
    ELSE IF fields[i].Kind = "bool"
    THEN IF hasValue
         THEN SetBool(fields, vals, actual, a, name, i, ParseBool(val))
         ELSE ParseArgs(fields, [vals EXCEPT ![i] = BoolV(TRUE)], actual \cup {name}, a)
    ELSE IF ~hasValue /\ Len(a) = 0
    THEN ParseEnd("ParseError", vals, actual, a, name)  \* flag needs an argument
    ELSE IF fields[i].Kind = "int"
    THEN IF hasValue
         THEN SetInt(fields, vals, actual, a, name, i, ParseInt(val, 0))
         ELSE SetInt(fields, vals, actual, Tail(a), name, i, ParseInt(a[1], 0))
    ELSE IF hasValue
         THEN ParseArgs(fields, [vals EXCEPT ![i] = StringV(val)], actual \cup {name}, a)
         ELSE ParseArgs(fields, [vals EXCEPT ![i] = StringV(a[1])], actual \cup {name}, Tail(a))

\* boolValue.Set
SetBool(fields, vals, actual, a, name, i, r) ==
    IF r.ok THEN ParseArgs(fields, [vals EXCEPT ![i] = BoolV(r.v)], actual \cup {name}, a)
    ELSE ParseEnd("ParseError", vals, actual, a, name)  \* invalid boolean value

\* intValue.Set
SetInt(fields, vals, actual, a, name, i, r) ==
    IF r.ok THEN ParseArgs(fields, [vals EXCEPT ![i] = IntV(r.v)], actual \cup {name}, a)
    ELSE ParseEnd("ParseError", vals, actual, a, name)  \* invalid value

\* flag.NewFlagSet(cmd.Name, flag.ExitOnError)
ErrorHandling == "ExitOnError"

(* What the caller of fs.Parse sees when parsing ends as r.  status "ok"    *)
(* and "error" are returns (nil, a non-nil error); under ExitOnError a     *)
(* failure ends the process in os.Exit (0 after -h or -help, 2 otherwise), *)
(* and under PanicOnError it panics.                                       *)
Handled(r) ==
    [status |-> IF r.err = "nil" THEN "ok"
                ELSE CASE ErrorHandling = "ContinueOnError" -> "error"
                       [] ErrorHandling = "ExitOnError" -> "exit"
                       [] OTHER -> "panic",
     err |-> r.err, code |-> IF r.err = "ErrHelp" THEN 0 ELSE 2,
     vals |-> r.vals, actual |-> r.actual, rest |-> r.rest, bad |-> r.bad]

\* fs.Parse(a), the flags being those of fields and writing to vals.
FlagSetParse(fields, vals, a) == Handled(ParseArgs(fields, vals, {}, a))

----------------------------------------------------------------------------
(* The registry.                                                           *)

\* The command map of a category name made of the maps of every Category object
\* created under that name, a later object's entries over an earlier one's.
CmdMapMerged(c) ==
    LET objs == {i \in 1 .. Len(catHeap) : catHeap[i].Name = c}
        names == UNION {DOMAIN catHeap[i].commands : i \in objs}
    IN  [n \in names |->
           catHeap[CHOOSE i \in objs :
                      /\ n \in DOMAIN catHeap[i].commands
                      /\ \A j \in objs : n \in DOMAIN catHeap[j].commands => j <= i].commands[n]]

\* The command map of the category registered under name c.
CmdMap(c) == catHeap[categories[c]].commands

\* The entries of all command maps of all Category objects.
NumRegistered ==
    Cardinality({<<i, n>> \in (1 .. Len(catHeap)) \X {Commands[c].Name : c \in CmdIds} :
                   n \in DOMAIN catHeap[i].commands})

\* findCommand ranging over every Category object ever created.
findCommandAnyObject(name) ==
    {catHeap[i].commands[name] :
        i \in {j \in 1 .. Len(catHeap) : name \in DOMAIN catHeap[j].commands}}

\* findCommand returning any command of the first category that holds name.
findCommandOfCategory(name) ==
    UNION {{CmdMap(c)[n] : n \in DOMAIN CmdMap(c)} :
              c \in {d \in DOMAIN categories : name \in DOMAIN CmdMap(d)}}

(* findCommand: the Command objects it can return for name.  It ranges over *)
(* the categories map, whose iteration order Go leaves unspecified, and    *)
(* returns at the first category holding name; the empty set is the         *)
(* ErrUnknownCommand return.                                               *)
findCommand(name) ==
    {CmdMap(c)[name] : c \in {d \in DOMAIN categories : name \in DOMAIN CmdMap(d)}}

----------------------------------------------------------------------------
(* Output: one item per line the code prints.                              *)

Item(t, a, b, hint, def) == [t |-> t, a |-> a, b |-> b, hint |-> hint, def |-> def]

HeaderItem == Item("Available Commands", <<>>, "", "", <<>>)
CategoryItem(name) == Item("category", <<>>, name, "", <<>>)
CommandItem(name, desc) == Item("command", name, desc, "", <<>>)
FlagItem(field) ==
    Item("flag", IF field.flag = <<>> THEN ToLower(field.Name) ELSE field.flag, field.usage,
         IF field.Kind # "bool" THEN field.Kind ELSE "", field.default)
FooterItems == <<Item("Usage", <<>>, "", "", <<>>), Item("command [flags]", <<>>, "", "", <<>>)>>
ErrorItem(name) == Item("unknown command", name, "", "", <<>>)
HelpForItem(name, cat) == Item("Help for command", name, cat, "", <<>>)
DescriptionItem(desc) == Item("Description", <<>>, desc, "", <<>>)
\* Not output: the place where a panic stops the printing.
PanicMark == Item("panic", <<>>, "", "", <<>>)

\* The sequences that enumerate the set S once each.
Perms(S) ==
    {f \in [1 .. Cardinality(S) -> S] : \A i, j \in 1 .. Cardinality(S) : i # j => f[i] # f[j]}

(* What PrintUsage prints for one command: its line, then, when the handler *)
(* has a struct second parameter, one line per field of the struct.        *)
(* handlerType.NumIn() panics when the Handler is nil or not a function.   *)
CommandUsage(name, c) ==
    LET h == Commands[c].Handler
        line == <<CommandItem(name, Commands[c].Description)>>
    IN  IF h.kind # "func" THEN line \o <<PanicMark>>
        ELSE IF Len(h.in) > 1 /\ h.in[2].kind = "struct"
        THEN line \o [i \in 1 .. Len(h.in[2].fields) |-> FlagItem(h.in[2].fields[i])]
        ELSE line

RECURSIVE CommandsUsage(_, _)
CommandsUsage(m, order) ==
    IF Len(order) = 0 THEN <<>>
    ELSE CommandUsage(order[1], m[order[1]]) \o CommandsUsage(m, Tail(order))

RECURSIVE CategoriesUsage(_)
\* uo: the categories in the order the range statements visit them, each with
\* the order of its commands.
CategoriesUsage(uo) ==
    IF Len(uo) = 0 THEN <<>>
    ELSE <<CategoryItem(catHeap[categories[uo[1].cat]].Name)>>
         \o CommandsUsage(CmdMap(uo[1].cat), uo[1].order)
         \o CategoriesUsage(Tail(uo))

\* Every order in which PrintUsage can visit the categories and their commands.
UsageOrders ==
    LET cats == DOMAIN categories
        all == UNION {Perms(DOMAIN CmdMap(c)) : c \in cats}
        choices == {f \in [cats -> all] : \A c \in cats : f[c] \in Perms(DOMAIN CmdMap(c))}
    IN  UNION {{[i \in 1 .. Len(co) |-> [cat |-> co[i], order |-> f[co[i]]]] : f \in choices} :
               co \in Perms(cats)}

\* The lines written before the first panic, and whether there is one.
Written(lines) ==
    IF \E i \in 1 .. Len(lines) : lines[i] = PanicMark
    THEN [out |-> SubSeq(lines, 1, (CHOOSE i \in 1 .. Len(lines) :
                     lines[i] = PanicMark /\ \A j \in 1 .. i - 1 : lines[j] # PanicMark) - 1),
          panicked |-> TRUE]
    ELSE [out |-> lines, panicked |-> FALSE]

\* PrintUsage: what it can write.
PrintUsage ==
    {Written(<<HeaderItem>> \o CategoriesUsage(uo) \o FooterItems) : uo \in UsageOrders}

(* helpHandler(ctx, cmdName): what it can write.  The command comes from    *)
(* findCommand, the category name from a second range over the categories. *)
helpHandler(cmdName) ==
    IF cmdName = <<>> THEN PrintUsage
    ELSE IF findCommand(cmdName) = {}
    THEN {[out |-> <<ErrorItem(cmdName)>> \o u.out, panicked |-> u.panicked] : u \in PrintUsage}
    ELSE {[out |-> <<HelpForItem(cmdName, catName), DescriptionItem(Commands[c].Description)>>,
           panicked |-> FALSE] :
          c \in findCommand(cmdName),
          catName \in {d \in DOMAIN categories : cmdName \in DOMAIN CmdMap(d)}}

----------------------------------------------------------------------------
(* Dispatch.  An argument of the reflective call is [t, s, f]: "ctx",      *)
(* "string" with its text s, "struct" with its field values f, or          *)
(* "invalid", the zero reflect.Value of a slot nothing was assigned to.    *)

ArgCtx == [t |-> "ctx", s |-> <<>>, f |-> <<>>]
ArgString(s) == [t |-> "string", s |-> s, f |-> <<>>]
ArgStruct(f) == [t |-> "struct", s |-> <<>>, f |-> f]
ArgInvalid == [t |-> "invalid", s |-> <<>>, f |-> <<>>]

\* Command.flags: nil until executeCommand attaches a FlagSet.
NoFlagSet == [made |-> FALSE, formal |-> <<>>, actual |-> {}, parsed |-> FALSE]
NewFlagSet == [made |-> TRUE, formal |-> <<>>, actual |-> {}, parsed |-> FALSE]

\* How a Run call ends: status "returned" with err, "panic", or "exit" with
\* the exit code of os.Exit; arg is the name an ErrUnknownCommand wraps or the
\* token a flag error names.
Result(st, err, arg, code) == [status |-> st, err |-> err, arg |-> arg, code |-> code]
NotRun == Result("notrun", "nil", <<>>, 0)

Outcome(res, out, cs, p, fl) ==
    [result |-> res, out |-> out, calls |-> cs, picked |-> p, flags |-> fl]

\* isValidHandler, for a non-nil reflect.Type.
isValidHandler(h) == h.kind = "func" /\ Len(h.in) >= 1 /\ h.in[1].ctx

\* handleStructArgs handing over a new zero structure instead of argValue.
StructArgsFresh(fields, a, p) ==
    [status |-> p.status, err |-> p.err, code |-> p.code, bad |-> p.bad,
     fs |-> [made |-> TRUE, formal |-> <<>>, actual |-> p.actual, parsed |-> TRUE],
     args |-> IF p.status = "ok"
              THEN [a EXCEPT ![2] = ArgStruct([i \in 1 .. Len(fields) |->
                       CASE fields[i].Kind = "bool" -> BoolV(FALSE)
                         [] fields[i].Kind = "int" -> IntV(0)
                         [] fields[i].Kind = "string" -> StringV(<<>>)
                         [] OTHER -> ZeroV])]
              ELSE a]

\* What handleStructArgs returns when fs.Parse ended as p: the FlagSet, and
\* argValue in args[1] when it returned nil.
StructArgs(fields, a, p) ==
    [status |-> p.status, err |-> p.err, code |-> p.code, bad |-> p.bad,
     fs |-> [made |-> TRUE,
             formal |-> [i \in 1 .. Len(fields) |->
                           IF fields[i].Kind \in SupportedKinds THEN FlagName(fields[i])
                           ELSE <<>>],
             actual |-> p.actual, parsed |-> TRUE],
     args |-> IF p.status = "ok" THEN [a EXCEPT ![2] = ArgStruct(p.vals)] ELSE a]

\* handleStructArgs reading c.args[1:], the command name included.
handleStructArgsFromName(h, a) ==
    StructArgs(h.in[2].fields, a,
               FlagSetParse(h.in[2].fields, DefaultStruct(h.in[2].fields),
                            SubSeq(args, 2, Len(args))))

(* handleStructArgs: the flags are registered field by field on argValue,  *)
(* fs.Parse reads c.args[2:], and args[1] becomes argValue.                *)
handleStructArgs(h, a) ==
    StructArgs(h.in[2].fields, a,
               FlagSetParse(h.in[2].fields, DefaultStruct(h.in[2].fields),
                            SubSeq(args, 3, Len(args))))

\* handleStringArg taking the last token, the command name when it is the last.
handleStringArgLast(a) ==
    [status |-> "ok", err |-> "nil", code |-> 0, bad |-> <<>>, fs |-> NewFlagSet,
     args |-> [a EXCEPT ![2] = ArgString(args[Len(args)])]]

\* handleStringArg: args[1] becomes c.args[2], or "" when there is none.
handleStringArg(a) ==
    [status |-> "ok", err |-> "nil", code |-> 0, bad |-> <<>>, fs |-> NewFlagSet,
     args |-> [a EXCEPT ![2] = ArgString(IF Len(args) > 2 THEN args[3] ELSE <<>>)]]

\* make([]reflect.Value, handlerType.NumIn()), with the context in args[0].
NewArgs(h) == [i \in 1 .. Len(h.in) |-> IF i = 1 THEN ArgCtx ELSE ArgInvalid]

\* prepareArgs: one slot per parameter, the second filled after its kind.
prepareArgs(h) ==
    IF Len(h.in) > 1
    THEN CASE h.in[2].kind = "struct" -> handleStructArgs(h, NewArgs(h))
           [] h.in[2].kind = "string" -> handleStringArg(NewArgs(h))
           [] OTHER -> [status |-> "error", err |-> "unsupported argument type",
                        code |-> 0, bad |-> <<>>, fs |-> NewFlagSet, args |-> NewArgs(h)]
    ELSE [status |-> "ok", err |-> "nil", code |-> 0, bad |-> <<>>, fs |-> NewFlagSet,
          args |-> NewArgs(h)]

(* callHandler: reflect.Value.Call panics on a zero Value argument before  *)
(* the function is entered; otherwise the function runs once.  Of the      *)
(* handlers only helpHandler belongs to the package: it writes, and it     *)
(* panics where PrintUsage does.                                           *)
callHandler(c, a, fs) ==
    LET h == Commands[c].Handler
        call == <<[cmd |-> c, fn |-> h.fn, args |-> a]>>
    IN  IF \E i \in 1 .. Len(a) : a[i] = ArgInvalid
        THEN {Outcome(Result("panic", "nil", <<>>, 0), <<>>, <<>>, c, fs)}
        ELSE IF h.fn = "helpHandler"
        THEN {Outcome(IF w.panicked THEN Result("panic", "nil", <<>>, 0)
                      ELSE Result("returned", "nil", <<>>, 0), w.out, call, c, fs) :
              w \in helpHandler(a[2].s)}
        ELSE {Outcome(Result("returned", "nil", <<>>, 0), <<>>, call, c, fs)}

\* executeCommand after prepareArgs has ended as p.
Prepared(c, p) ==
    CASE p.status = "ok" -> callHandler(c, p.args, p.fs)
      [] p.status = "error" -> {Outcome(Result("returned", p.err, p.bad, 0), <<>>, <<>>, c, p.fs)}
      [] OTHER -> {Outcome(Result(p.status, p.err, p.bad, p.code), <<>>, <<>>, c, p.fs)}

(* executeCommand keeping the FlagSet of an earlier dispatch in cmd.flags:   *)
(* defining its flags a second time panics ("flag redefined").             *)
executeCommandCached(c) ==
    IF Commands[c].Handler.kind = "nil" \/ Len(cmdFlags[c].formal) > 0
    THEN {Outcome(Result("panic", "nil", <<>>, 0), <<>>, <<>>, c, cmdFlags[c])}
    ELSE IF ~isValidHandler(Commands[c].Handler)
    THEN {Outcome(Result("returned", "ErrInvalidHandler", <<>>, 0), <<>>, <<>>, c, cmdFlags[c])}
    ELSE Prepared(c, prepareArgs(Commands[c].Handler))

(* executeCommand(cmd): the ways it can end.  reflect.TypeOf of a nil       *)
(* Handler is nil, and isValidHandler calls Kind on it.                    *)
executeCommand(c) ==
    IF Commands[c].Handler.kind = "nil"
    THEN {Outcome(Result("panic", "nil", <<>>, 0), <<>>, <<>>, c, cmdFlags[c])}
    ELSE IF ~isValidHandler(Commands[c].Handler)
    THEN {Outcome(Result("returned", "ErrInvalidHandler", <<>>, 0), <<>>, <<>>, c, cmdFlags[c])}
    ELSE Prepared(c, prepareArgs(Commands[c].Handler))

\* Run writing the error's line before the usage, as helpHandler does.
UsageThenNamed(err, arg) ==
    {Outcome(IF u.panicked THEN Result("panic", "nil", <<>>, 0)
             ELSE Result("returned", err, arg, 0),
             <<ErrorItem(arg)>> \o u.out, <<>>, 0, NoFlagSet) :
     u \in PrintUsage}

\* Run when findCommand is not reached or fails: PrintUsage, then err.
UsageThen(err, arg) ==
    {Outcome(IF u.panicked THEN Result("panic", "nil", <<>>, 0)
             ELSE Result("returned", err, arg, 0), u.out, <<>>, 0, NoFlagSet) :
     u \in PrintUsage}

\* Run(): the ways one call can end.
RunOutcomes ==
    IF Len(args) < 2 THEN UsageThen("ErrNoSubcommand", <<>>)
    ELSE IF findCommand(args[2]) = {} THEN UsageThen("ErrUnknownCommand", args[2])
    ELSE UNION {executeCommand(c) : c \in findCommand(args[2])}

----------------------------------------------------------------------------
(* The operations of the package.                                          *)

CatNames == {"Help", "Test"}

\* The argument vectors a Commander is constructed with.
ArgVectors ==
    {<<>>, <<prog>>, <<prog, unknown>>,
     <<prog, help>>, <<prog, help, test>>, <<prog, help, unknown>>, <<prog, help, help>>,
     <<prog, test, Dash(flag1)>>, <<prog, test, Dash(flag2), value>>,
     <<prog, test, Dash(<<"x">>)>>,
     <<prog, loose, Dash(port), <<"7">>>>, <<prog, loose, Dash(port), value>>}
    \cup {<<prog, Commands[c].Name>> : c \in CmdIds}

\* The tokens the enumerated tails are made of: flags of TestArgs and of
\* LooseArgs, a flag of neither, and three values.
TailTokens ==
    {Dash(flag1), Dash(flag2), Dash(port), Dash(<<"x">>), value, false, <<"7">>}

Tails == UNION {[1 .. k -> TailTokens] : k \in 0 .. MaxTail}

\* The commands whose handler takes the context and a structure.
StructCmds ==
    {c \in CmdIds : /\ Commands[c].Handler.kind = "func"
                    /\ Len(Commands[c].Handler.in) = 2
                    /\ Commands[c].Handler.in[2].kind = "struct"}

\* The argument vectors that name such a command, with every tail, and with
\* the tails "--", "-h" and "-flag1=false", and flags after a value token that
\* follows a boolean flag.
BindVectors ==
    {<<prog, Commands[c].Name>> \o t : c \in StructCmds, t \in Tails}
    \cup {<<prog, test, <<"-", "-">>, Dash(flag1)>>, <<prog, test, <<"-", "h">>>>,
          <<prog, test, Dash(flag1), false, Dash(flag2), value>>,
          <<prog, test, Dash(flag1), false, Dash(<<"x">>)>>,
          <<prog, test, <<"-">> \o flag1 \o <<"=">> \o false, Dash(flag2)>>,
          <<prog, loose, Dash(<<"h", "o", "s", "t">>), value>>,
          <<prog, loose, Dash(<<"y", "e", "s">>)>>}

\* NewWithArgs(a): the Help category with the help command, and no output.
NewWithArgs(a) ==
    /\ args = a
    /\ categories = ("Help" :> 1)
    /\ catHeap = <<[Name |-> "Help", commands |-> (help :> HelpCmd)]>>
    /\ cmdFlags = [c \in CmdIds |-> NoFlagSet]
    /\ output = <<>>
    /\ written = <<>>
    /\ result = NotRun
    /\ calls = <<>>
    /\ picked = 0
    /\ runs = 0

Init == \E a \in ArgVectors : NewWithArgs(a)

\* The process is alive: no Run call has panicked or left through os.Exit.
Alive == result.status \in {"notrun", "returned"}

\* c.AddCategory(name): a new Category object replaces what the name mapped to.
\* The registry is built before the first Run call, as in every program of the
\* repository (example/golang/tools/cmder/main.go, commander_test.go).
AddCategory(name) ==
    /\ Alive
    /\ runs = 0
    /\ Len(catHeap) < 1 + MaxCats
    /\ catHeap' = Append(catHeap, [Name |-> name, commands |-> <<>>])
    /\ categories' = (name :> (Len(catHeap) + 1)) @@ categories
    /\ UNCHANGED <<cmdFlags, args, output, written, result, calls, picked, runs>>

\* cat.Register(cmd), cat being the Category object h and cmd the Command object c.
Register(h, c) ==
    /\ Alive
    /\ runs = 0
    /\ Commands[c].Name \in DOMAIN catHeap[h].commands \/ NumRegistered < MaxRegistered
    /\ catHeap' = [catHeap EXCEPT ![h].commands = (Commands[c].Name :> c) @@ @]
    /\ UNCHANGED <<categories, cmdFlags, args, output, written, result, calls, picked, runs>>

\* c.SetOutput(w), w being a writer nothing has been written to.
SetOutput ==
    /\ Alive
    /\ output # <<>>
    /\ output' = <<>>
    /\ UNCHANGED <<categories, catHeap, cmdFlags, args, written, result, calls, picked, runs>>

\* c.Run()
Run ==
    /\ Alive
    /\ runs < MaxRuns
    /\ \E o \in RunOutcomes :
         /\ result' = o.result
         /\ output' = output \o o.out
         /\ written' = o.out
         /\ calls' = o.calls
         /\ picked' = o.picked
         /\ cmdFlags' = IF o.picked = 0 THEN cmdFlags
                        ELSE [cmdFlags EXCEPT ![o.picked] = o.flags]
    /\ runs' = runs + 1
    /\ UNCHANGED <<categories, catHeap, args>>

Next ==
    \/ \E name \in CatNames : AddCategory(name)
    \/ \E h \in 1 .. Len(catHeap), c \in CmdIds : Register(h, c)
    \/ SetOutput
    \/ Run

Spec == Init /\ [][Next]_vars

(* The program of TestStructArguments: a Commander constructed with an     *)
(* argument vector naming a command with a structure, a category Test,     *)
(* such commands registered, and Run.                                      *)
BindInit == \E a \in BindVectors : NewWithArgs(a)

BindNext ==
    \/ AddCategory("Test")
    \/ \E h \in 1 .. Len(catHeap), c \in StructCmds : Register(h, c)
    \/ SetOutput
    \/ Run

BindSpec == BindInit /\ [][BindNext]_vars

----------------------------------------------------------------------------
(* Properties.  They speak of the latest Run call: of args, of the         *)
(* registry it ran on (registration precedes Run), and of result, written, *)
(* calls and picked.                                                       *)

Returned(err) == result.status = "returned" /\ result.err = err

HasRun == runs > 0

\* w is a whole usage text: the header, every category of the registry with
\* every command of it, and the footer.
FullUsage(w) ==
    /\ Len(w) >= 3
    /\ w[1] = HeaderItem
    /\ SubSeq(w, Len(w) - 1, Len(w)) = FooterItems
    /\ \A c \in DOMAIN categories :
         /\ \E i \in 1 .. Len(w) : w[i] = CategoryItem(c)
         /\ \A n \in DOMAIN CmdMap(c) :
              \E i \in 1 .. Len(w) : w[i] = CommandItem(n, Commands[CmdMap(c)[n]].Description)

\* name is a command of no category of the registry.
InNoCategory(name) == \A c \in DOMAIN categories : name \notin DOMAIN CmdMap(c)

\* The handler of the command the latest Run call resolved.
PickedHandler == Commands[picked].Handler

\* The latest Run call resolved a command whose handler takes the context and
\* a structure.
StructDispatched == HasRun /\ picked \in StructCmds

PickedFields == PickedHandler.in[2].fields

\* The tokens after the command name.
TailOfArgs == SubSeq(args, 3, Len(args))

\* The handler was called once, with the context and a structure.
CalledWithStruct ==
    /\ Returned("nil")
    /\ Len(calls) = 1
    /\ calls[1].cmd = picked
    /\ Len(calls[1].args) = 2
    /\ calls[1].args[1] = ArgCtx
    /\ calls[1].args[2].t = "struct"
    /\ Len(calls[1].args[2].f) = Len(PickedFields)

\* The structure the handler was called with.
BoundStruct == calls[1].args[2].f

\* A complete decimal integer: an optional sign and decimal digits only.
WellFormedDecimal(d) ==
    /\ Len(d) > 0
    /\ LET digits == IF d[1] \in {"+", "-"} THEN Tail(d) ELSE d
       IN  Len(digits) > 0 /\ \A i \in 1 .. Len(digits) : digits[i] \in DecimalDigits

RECURSIVE DecimalValue(_)
\* The number the decimal digits ds write.
DecimalValue(ds) ==
    IF Len(ds) = 0 THEN 0
    ELSE 10 * DecimalValue(SubSeq(ds, 1, Len(ds) - 1)) + DigitVal(ds[Len(ds)])

SignedDecimalValue(d) ==
    IF d[1] = "-" THEN 0 - DecimalValue(Tail(d))
    ELSE IF d[1] = "+" THEN DecimalValue(Tail(d))
    ELSE DecimalValue(d)

\* v is the default the tags of field declare: for a bool, true exactly when the
\* default tag is "true"; for an int, 0 when the tag is absent and the number
\* when it is a complete decimal integer; for a string, the tag's text.
IsDeclaredDefault(field, v) ==
    CASE field.Kind = "bool" -> v.k = "bool" /\ v.b = (field.default = true)
      [] field.Kind = "int" ->
           /\ v.k = "int"
           /\ field.default = <<>> => v.i = 0
           /\ WellFormedDecimal(field.default) => v.i = SignedDecimalValue(field.default)
      [] field.Kind = "string" -> v.k = "string" /\ v.s = field.default
      [] OTHER -> v = ZeroV

\* The field of the picked handler's structure whose flag is name and whose kind
\* is kind, 0 when there is none.
FieldOfFlag(name, kind) ==
    IF \E i \in 1 .. Len(PickedFields) :
           PickedFields[i].Kind = kind /\ name = (IF PickedFields[i].flag # <<>>
                                                  THEN PickedFields[i].flag
                                                  ELSE ToLower(PickedFields[i].Name))
    THEN CHOOSE i \in 1 .. Len(PickedFields) :
           PickedFields[i].Kind = kind /\ name = (IF PickedFields[i].flag # <<>>
                                                  THEN PickedFields[i].flag
                                                  ELSE ToLower(PickedFields[i].Name))
    ELSE 0

\* C1: with fewer than 2 tokens, Run returns ErrNoSubcommand, has written the
\* full usage, and has invoked no handler.
C1_NoSubcommand ==
    (HasRun /\ Len(args) < 2)
        => (Returned("ErrNoSubcommand") /\ FullUsage(written) /\ calls = <<>>)

\* C2: when the second token names a command of no category, Run returns an
\* error wrapping ErrUnknownCommand, has written the full usage, and has invoked
\* no handler.
C2_UnknownCommand ==
    (HasRun /\ Len(args) >= 2 /\ InNoCategory(args[2]))
        => (Returned("ErrUnknownCommand") /\ FullUsage(written) /\ calls = <<>>)

\* The tail fails to parse against the picked structure's flags: a flag that is
\* not defined, a value that does not convert, a flag without its value.
TailFailsToParse ==
    ParseArgs(PickedFields, DefaultStruct(PickedFields), {}, TailOfArgs).err = "ParseError"

\* C3: when the tail of a structured command holds a flag outside the schema or
\* a non-integer value for an integer flag, Run returns the parse error to its
\* caller and the handler is not invoked.
C3_ParseErrorReturned ==
    (StructDispatched /\ TailFailsToParse)
        => (Returned("ParseError") /\ calls = <<>>)

\* The handler is not a function, or a function without parameters, or one
\* whose first parameter is no context.
BadShape(h) ==
    \/ h.kind # "func"
    \/ Len(h.in) = 0
    \/ ~h.in[1].ctx

\* C4: when the dispatched command's Handler is not a function, has no
\* parameter, or has a first parameter that is no context, Run returns
\* ErrInvalidHandler, writes nothing, and invokes no handler.
C4_InvalidHandler ==
    (HasRun /\ picked # 0 /\ BadShape(PickedHandler))
        => (Returned("ErrInvalidHandler") /\ written = <<>> /\ calls = <<>>)

\* C5: when the dispatched handler has a context first parameter and more than
\* two parameters, Run returns ErrInvalidHandler and invokes no handler.
C5_TooManyParameters ==
    (HasRun /\ picked # 0 /\ PickedHandler.kind = "func" /\ Len(PickedHandler.in) > 2
        /\ PickedHandler.in[1].ctx)
        => (Returned("ErrInvalidHandler") /\ calls = <<>>)

\* C6: in a Run call the handler is invoked at most once, with every argument
\* bound, and it is invoked exactly when Run returns no error.
C6_InvokedIffNoError ==
    HasRun =>
        /\ Len(calls) <= 1
        /\ \A k \in 1 .. Len(calls) :
             /\ calls[k].cmd = picked
             /\ Len(calls[k].args) = Len(PickedHandler.in)
             /\ \A i \in 1 .. Len(calls[k].args) : calls[k].args[i] # ArgInvalid
        /\ (Len(calls) = 1) <=> Returned("nil")

\* C7: when a structured handler is invoked after a tail that set none of its
\* flags, every field it receives is the declared default; an empty tail always
\* leads to that call.
C7_DefaultsKept ==
    /\ (StructDispatched /\ Len(calls) > 0 /\ cmdFlags[picked].actual = {})
          => (CalledWithStruct
              /\ \A i \in 1 .. Len(PickedFields) :
                   IsDeclaredDefault(PickedFields[i], BoundStruct[i]))
    /\ (StructDispatched /\ TailOfArgs = <<>>)
          => (CalledWithStruct /\ cmdFlags[picked].actual = {})

\* A structured handler was invoked after a non-empty tail that set no flag.
C7_Witness ==
    /\ StructDispatched /\ Len(calls) = 1 /\ cmdFlags[picked].actual = {}
    /\ TailOfArgs # <<>>
    /\ \E i \in 1 .. Len(PickedFields) :
         PickedFields[i].Kind = "bool" /\ PickedFields[i].default \notin {<<>>, true, false}

\* C8: after the tail ["--name", v], name being a string flag of the schema, the
\* handler receives v in that field and the declared default in every other.
C8_StringFlagBound ==
    (StructDispatched /\ Len(args) = 4 /\ Len(args[3]) > 2
        /\ SubSeq(args[3], 1, 2) = <<"-", "-">>
        /\ FieldOfFlag(SubSeq(args[3], 3, Len(args[3])), "string") # 0)
        => (CalledWithStruct
            /\ LET f == FieldOfFlag(SubSeq(args[3], 3, Len(args[3])), "string")
               IN  /\ BoundStruct[f] = StringV(args[4])
                   /\ \A i \in (1 .. Len(PickedFields)) \ {f} :
                        IsDeclaredDefault(PickedFields[i], BoundStruct[i]))

\* The handler received a value that differs from the field's default and that
\* itself looks like a flag.
C8_Witness ==
    /\ StructDispatched /\ Len(calls) = 1 /\ Len(args) = 4
    /\ args[3] = Dash(flag2) /\ args[4] = Dash(flag1)
    /\ BoundStruct[2] = StringV(Dash(flag1))

\* C9: after the tail ["--name"], name being a boolean flag whose default is
\* false, the handler receives true in that field and the declared default in
\* every other.
C9_BoolFlagBound ==
    (StructDispatched /\ Len(args) = 3 /\ Len(args[3]) > 2
        /\ SubSeq(args[3], 1, 2) = <<"-", "-">>
        /\ FieldOfFlag(SubSeq(args[3], 3, Len(args[3])), "bool") # 0
        /\ PickedFields[FieldOfFlag(SubSeq(args[3], 3, Len(args[3])), "bool")].default # true)
        => (CalledWithStruct
            /\ LET f == FieldOfFlag(SubSeq(args[3], 3, Len(args[3])), "bool")
               IN  /\ BoundStruct[f] = BoolV(TRUE)
                   /\ \A i \in (1 .. Len(PickedFields)) \ {f} :
                        IsDeclaredDefault(PickedFields[i], BoundStruct[i]))

\* The handler of the test command was invoked after ["--flag1"].
C9_Witness ==
    /\ StructDispatched /\ Len(calls) = 1
    /\ args = <<prog, test, Dash(flag1)>>
    /\ BoundStruct[1] = BoolV(TRUE)

\* C10: an integer field left at its default holds the number its default tag
\* writes when the tag is a complete decimal integer, and 0 for every other tag.
C10_IntDefaultCoercion ==
    (StructDispatched /\ Len(calls) = 1 /\ cmdFlags[picked].actual = {})
        => \A i \in 1 .. Len(PickedFields) :
             PickedFields[i].Kind = "int"
                 => BoundStruct[i].i = (IF WellFormedDecimal(PickedFields[i].default)
                                        THEN SignedDecimalValue(PickedFields[i].default)
                                        ELSE 0)

\* The handler has the shape the calling convention allows: a function of the
\* context alone, or of the context and a structure or a string.
ValidShape(h) ==
    /\ h.kind = "func"
    /\ Len(h.in) \in {1, 2}
    /\ h.in[1].ctx
    /\ Len(h.in) = 2 => h.in[2].kind \in {"struct", "string"}

\* Every command registered in a Category object has such a handler.
AllHandlersValid ==
    \A i \in 1 .. Len(catHeap) : \A n \in DOMAIN catHeap[i].commands :
        ValidShape(Commands[catHeap[i].commands[n]].Handler)

\* The help handler was called once, with the context and the string s.
HelpCalledWith(s) ==
    /\ Len(calls) = 1
    /\ calls[1].cmd = HelpCmd
    /\ calls[1].args = <<ArgCtx, ArgString(s)>>

\* C11 as stated: after any registrations with valid handlers, Run on
\* [prog, "help"] returns no error, writes "Available Commands", and dispatches
\* the built-in help command.
C11_HelpAlwaysPresent ==
    (HasRun /\ args = <<prog, help>> /\ AllHandlersValid)
        => /\ Returned("nil")
           /\ \E i \in 1 .. Len(written) : written[i] = HeaderItem
           /\ picked = HelpCmd

\* C11, amended: when the built-in help command is the only command the
\* categories of the registry hold under the name "help", and every registered
\* handler is valid, Run on [prog, "help"] dispatches it, returns no error and
\* writes the full usage.
C11_HelpWhileRegistered ==
    (HasRun /\ args = <<prog, help>> /\ AllHandlersValid /\ findCommand(help) = {HelpCmd})
        => /\ Returned("nil")
           /\ FullUsage(written)
           /\ picked = HelpCmd
           /\ HelpCalledWith(<<>>)

\* Run on [prog, "help"] wrote the usage of a registry that holds, beside the
\* built-in command, the test command in a category Test.
C11_Witness ==
    /\ HasRun /\ args = <<prog, help>> /\ AllHandlersValid
    /\ findCommand(help) = {HelpCmd}
    /\ "Test" \in DOMAIN categories
    /\ test \in DOMAIN CmdMap("Test")
    /\ Returned("nil")
    /\ \E i \in 1 .. Len(written) : written[i] = CommandItem(test, "Test command")

\* C12: Run on [prog, "help", x], "help" naming the built-in command and x
\* being the name of no registered command, returns no error and writes an
\* error line naming x followed by the full usage.
C12_HelpUnknownCommand ==
    (HasRun /\ Len(args) = 3 /\ args[2] = help /\ findCommand(help) = {HelpCmd}
        /\ InNoCategory(args[3]))
        => /\ Returned("nil")
           /\ Len(written) > 0
           /\ written[1] = ErrorItem(args[3])
           /\ FullUsage(Tail(written))

\* C13 as stated: every command that was registered is what findCommand
\* returns for its name.
C13_RegisteredIsFound ==
    \A i \in 1 .. Len(catHeap) : \A n \in DOMAIN catHeap[i].commands :
        findCommand(n) = {catHeap[i].commands[n]}

\* Category d of the registry is the only one that holds the name n.
OnlyHolder(d, n) ==
    /\ d \in DOMAIN categories
    /\ n \in DOMAIN CmdMap(d)
    /\ \A e \in DOMAIN categories \ {d} : n \notin DOMAIN CmdMap(e)

\* C13, amended: a command that a category of the registry holds under its
\* name, no other category of the registry holding that name, is what
\* findCommand returns for the name, and what Run resolves the name to.
C13_SoleHolderIsFound ==
    \A d \in DOMAIN categories : \A n \in DOMAIN CmdMap(d) :
        OnlyHolder(d, n)
            => /\ findCommand(n) = {CmdMap(d)[n]}
               /\ (HasRun /\ Len(args) >= 2 /\ args[2] = n) => picked = CmdMap(d)[n]

\* Run resolved "help" to a command registered after the category that held
\* the built-in help command was replaced.
C13_Witness ==
    /\ HasRun /\ Len(args) >= 2 /\ args[2] = help
    /\ Len(catHeap) = 2 /\ categories["Help"] = 2
    /\ OnlyHolder("Help", help)
    /\ CmdMap("Help")[help] = 3
    /\ picked = 3

(* Two Commanders with identical registrations and tokens are two Run calls *)
(* from one state of the registry.  RunOutcomes is every way such a call   *)
(* can end; Run changes neither the registry nor the tokens, so after a    *)
(* Run call it still is every way the other Commander's call can end.      *)

\* Every Run call on this registry and these tokens ends as the latest one
\* did: the same command resolved, the same handler called with the same
\* arguments, the same error.
SameOutcomeAsLatest ==
    \A o \in RunOutcomes :
        /\ o.result = result
        /\ o.picked = picked
        /\ o.calls = calls

\* The categories of the registry that hold the command name of the tokens.
HoldersOfToken == {d \in DOMAIN categories : args[2] \in DOMAIN CmdMap(d)}

\* C14 as stated: identical registrations and tokens give the same Run
\* outcome, also when a command name is registered in several categories.
C14_SameOutcome == HasRun => SameOutcomeAsLatest

\* C14, amended: identical registrations and tokens give the same Run outcome
\* when at most one category of the registry holds the command name.
C14_SameOutcomeUniqueName ==
    (HasRun /\ (Len(args) < 2 \/ Cardinality(HoldersOfToken) <= 1))
        => SameOutcomeAsLatest

\* A Run call bound a flag value for a command of a registry with two
\* categories, one of which holds the command name.
C14_Witness ==
    /\ HasRun /\ Len(args) = 4
    /\ Cardinality(DOMAIN categories) = 2
    /\ Cardinality(HoldersOfToken) = 1
    /\ Len(calls) = 1
    /\ calls[1].args[2].t = "struct"
    /\ cmdFlags[picked].actual # {}
    /\ SameOutcomeAsLatest

\* The flag names PrintUsage lists under command c.
UsageFlagNames(c) ==
    LET u == CommandUsage(Commands[c].Name, c)
    IN  {u[i].a : i \in {j \in 1 .. Len(u) : u[j].t = "flag"}}

\* The flag names of the FlagSet the latest dispatch of command c defined.
SchemaFlagNames(c) ==
    {cmdFlags[c].formal[i] : i \in 1 .. Len(cmdFlags[c].formal)} \ {<<>>}

\* C15: for a command whose handler takes a structure, the flag names the
\* usage lists under it are exactly the flag names its dispatch accepts.
C15_UsageListsSchema ==
    \A c \in StructCmds :
        cmdFlags[c].parsed => UsageFlagNames(c) = SchemaFlagNames(c)

\* C16: when the dispatched handler's second parameter is neither a structure
\* nor a string, Run returns ErrInvalidHandler and invokes no handler.
C16_UnsupportedSecondParameter ==
    (HasRun /\ picked # 0 /\ PickedHandler.kind = "func" /\ Len(PickedHandler.in) = 2
        /\ PickedHandler.in[1].ctx /\ PickedHandler.in[2].kind \notin {"struct", "string"})
        => (Returned("ErrInvalidHandler") /\ calls = <<>>)

\* The categories of the registry whose command mapping contains the Command
\* object c.
Owners(c) ==
    {d \in DOMAIN categories : \E n \in DOMAIN CmdMap(d) : CmdMap(d)[n] = c}

\* C17: in every state of the registry, a Command object that is in a command
\* mapping is in the mapping of exactly one category.
C17_OneOwner ==
    \A c \in CmdIds : Owners(c) # {} => Cardinality(Owners(c)) = 1

\* A category of the registry holds a command whose Handler is not a function.
NonFunctionRegistered ==
    \E d \in DOMAIN categories : \E n \in DOMAIN CmdMap(d) :
        Commands[CmdMap(d)[n]].Handler.kind # "func"

\* C18: with a command whose Handler is not a function in the registry, Run
\* does not panic: without a subcommand it returns ErrNoSubcommand, for an
\* unknown command ErrUnknownCommand, for the built-in help no error, and for
\* that command ErrInvalidHandler.
C18_NoPanicOnNonFunction ==
    (HasRun /\ NonFunctionRegistered)
        => /\ result.status # "panic"
           /\ Len(args) < 2 => Returned("ErrNoSubcommand")
           /\ (Len(args) >= 2 /\ InNoCategory(args[2])) => Returned("ErrUnknownCommand")
           /\ (Len(args) >= 2 /\ picked = HelpCmd) => Returned("nil")
           /\ (picked # 0 /\ PickedHandler.kind # "func") => Returned("ErrInvalidHandler")

\* The line names n: it is the line of a command or of a flag called n, or the
\* error line of the unknown command n.
Mentions(item, n) == item.a = n

\* C19 as stated: when Run returns ErrUnknownCommand for a name in no category,
\* what it wrote contains that name.
C19_UsageNamesUnknown ==
    (HasRun /\ Returned("ErrUnknownCommand"))
        => \E i \in 1 .. Len(written) : Mentions(written[i], args[2])

\* C19, amended: when Run returns ErrUnknownCommand, the name is in no
\* category, the error carries the name, and what Run wrote is the full usage
\* of the registry alone, without a line for the error.
C19_ErrorNamesUnknown ==
    (HasRun /\ Returned("ErrUnknownCommand"))
        => /\ Len(args) >= 2
           /\ InNoCategory(args[2])
           /\ result.arg = args[2]
           /\ FullUsage(written)
           /\ \E u \in PrintUsage : ~u.panicked /\ u.out = written
           /\ \A i \in 1 .. Len(written) : written[i] # ErrorItem(args[2])

\* Run returned ErrUnknownCommand for "unknown" on a registry that holds the
\* test command beside the built-in one.
C19_Witness ==
    /\ HasRun /\ Returned("ErrUnknownCommand")
    /\ args = <<prog, unknown>>
    /\ result.arg = unknown
    /\ \E i \in 1 .. Len(written) : written[i] = CommandItem(test, "Test command")

\* A step that is a Run call after an earlier one.
LaterRun == runs >= 1 /\ runs' = runs + 1

\* The call ends as the one before it: the same command, the same handler
\* invocation with the same bound values, the same error, and a FlagSet that
\* holds what the earlier one held and no more.
SameAsEarlierRun ==
    /\ result' = result
    /\ picked' = picked
    /\ calls' = calls
    /\ Len(calls') <= 1
    /\ cmdFlags' = cmdFlags

\* C20 as stated: a second Run call on one Commander gives the same outcome
\* and bound values as the first.
C20_RepeatedRunSame == [][LaterRun => SameAsEarlierRun]_vars

\* C20, amended: a second Run call on one Commander gives the same outcome and
\* bound values as the first when at most one category of the registry holds
\* the command name.
C20_RepeatedRunSameUniqueName ==
    [][(LaterRun /\ (Len(args) < 2 \/ Cardinality(HoldersOfToken) <= 1))
          => SameAsEarlierRun]_vars

\* A second Run call has bound a flag value of the tail to a structure.
C20_Witness ==
    /\ runs = 2
    /\ Len(args) = 4
    /\ Cardinality(HoldersOfToken) = 1
    /\ Len(calls) = 1
    /\ calls[1].args[2].t = "struct"
    /\ cmdFlags[picked].actual # {}
    /\ Returned("nil")

\* Category object i was replaced: a later AddCategory call with its name took
\* its place in the registry.
Replaced(i) == \A d \in DOMAIN categories : categories[d] # i

\* The name maps to the Category object the latest AddCategory call with that
\* name created.
LastWriteWins ==
    \A d \in DOMAIN categories :
        /\ catHeap[categories[d]].Name = d
        /\ \A i \in 1 .. Len(catHeap) : catHeap[i].Name = d => i <= categories[d]

\* A Category object of the registry holds the Command object c.
HeldByRegistry(c) ==
    \E d \in DOMAIN categories :
        \E n \in DOMAIN catHeap[categories[d]].commands :
            catHeap[categories[d]].commands[n] = c

C22_HelpDetailConsistent ==
    (HasRun /\ Len(args) = 3 /\ args[2] = help /\ picked = HelpCmd
        /\ ~InNoCategory(args[3]))
        => /\ Returned("nil")
           /\ Len(written) = 2
           /\ \E d \in DOMAIN categories :
                /\ args[3] \in DOMAIN CmdMap(d)
                /\ written[1] = HelpForItem(args[3], d)
                /\ written[2] = DescriptionItem(Commands[CmdMap(d)[args[3]]].Description)

\* The token is no flag: flag parsing stops at it.
NonFlagToken(t) == Len(t) < 2 \/ t[1] # "-"

\* C23: after a tail that starts with "--name", name being a boolean flag of
\* the schema, and a separate value token, the handler is called without an
\* error, the field is true, name is the only flag set, and every other field
\* holds its declared default whatever follows the value token.
C23_BoolFlagStopsAtValue ==
    (StructDispatched /\ Len(args) >= 4 /\ Len(args[3]) > 2
        /\ SubSeq(args[3], 1, 2) = <<"-", "-">>
        /\ FieldOfFlag(SubSeq(args[3], 3, Len(args[3])), "bool") # 0
        /\ NonFlagToken(args[4]))
        => (CalledWithStruct
            /\ cmdFlags[picked].actual = {SubSeq(args[3], 3, Len(args[3]))}
            /\ LET f == FieldOfFlag(SubSeq(args[3], 3, Len(args[3])), "bool")
               IN  /\ BoundStruct[f] = BoolV(TRUE)
                   /\ \A i \in (1 .. Len(PickedFields)) \ {f} :
                        IsDeclaredDefault(PickedFields[i], BoundStruct[i]))

\* The test handler was called after ["--flag1", "false", "--flag2", "value"]
\* with Flag1 true and Flag2 at its default.
C23_Witness ==
    /\ StructDispatched /\ Len(calls) = 1
    /\ args = <<prog, test, Dash(flag1), false, Dash(flag2), value>>
    /\ BoundStruct = <<BoolV(TRUE), StringV(test)>>
    /\ cmdFlags[picked].actual = {flag1}

====
